---------------------------- MODULE Spec2Model ----------------------------
(***************************************************************************)
(* A model of rest_framework_drilldown.views.DrillDownAPIView: one GET     *)
(* request handled by a fresh view instance, stage by stage.               *)
(*                                                                         *)
(* Strings are sequences of tokens.  A token is a name ("client", "gt",    *)
(* "5") or one of the separators ".", "__", ",", "-".  Names hold no       *)
(* separator, no white space and no leading or trailing underscore, so     *)
(* str.split, str.replace and str.strip act on whole tokens.               *)
(***************************************************************************)
EXTENDS Integers, Sequences, FiniteSets, TLC

VARIABLES
    declared,           \* class attribute drilldowns, as written by the endpoint
    hide,               \* class attribute hide
    ignore,             \* class attribute ignore
    has_throttle,       \* whether the endpoint defines THROTTLE
    THROTTLE,           \* its value, when defined
    base_query,         \* whether get_base_query() returns a query
    QUERY_PARAMS,       \* the request: a sequence of [k, v], keys distinct
    nmatch,             \* rows of the base query matching the compiled filters
    pc,                 \* position in get()
    error,              \* self.error
    drilldowns,         \* self.drilldowns
    hide_fields,        \* self.hide_fields
    ignore_fields,      \* self.ignore_fields
    fields,             \* local fields of get()
    filters,            \* local filters of get(): the keys, in iteration order
    fields_map,         \* self.fields_map: the set of key paths of the nested dict
    select_relateds,    \* self.select_relateds
    prefetch_relateds,  \* self.prefetch_relateds
    filter_kwargs,      \* self.filter_kwargs: a sequence of [k, v], keys distinct
    offset,             \* self.offset
    limit,              \* self.limit
    data,               \* the response body
    status,             \* the response status, 0 while there is no response
    headers,            \* the response headers
    calls,              \* the calls made on the query engine, in order
    stages              \* the stages of get() run so far, in order

vars == <<declared, hide, ignore, has_throttle, THROTTLE, base_query,
          QUERY_PARAMS, nmatch, pc, error, drilldowns, hide_fields,
          ignore_fields, fields, filters, fields_map, select_relateds,
          prefetch_relateds, filter_kwargs, offset, limit, data, status,
          headers, calls, stages>>

-----------------------------------------------------------------------------
(* Bounds of the model *)

\* longest declared drilldown path, in segments
MaxSegs == 2
\* most entries in a declared drilldown list
MaxDeclared == 2
\* most filter parameters in one request
MaxFilters == 2
\* most comma-separated entries in the fields parameter
MaxFields == 2
\* largest small row count, limit, offset and THROTTLE tried
MaxSmall == 3

\* global max result count
GLOBAL_THROTTLE == 2000

-----------------------------------------------------------------------------
(* Python strings and lists *)

Min(a, b) == IF a <= b THEN a ELSE b
Max(a, b) == IF a >= b THEN a ELSE b

InSeq(x, s) == \E i \in 1..Len(s) : s[i] = x
Range(s) == {s[i] : i \in 1..Len(s)}

\* the first position of token sep in s, 0 when there is none
IndexOf(s, sep) ==
    IF \E i \in 1..Len(s) : s[i] = sep
    THEN CHOOSE i \in 1..Len(s) : s[i] = sep /\ \A j \in 1..(i-1) : s[j] # sep
    ELSE 0

RECURSIVE Split(_, _)
\* s.split(sep)
Split(s, sep) ==
    LET i == IndexOf(s, sep)
    IN  IF i = 0 THEN <<s>>
        ELSE <<SubSeq(s, 1, i-1)>> \o Split(SubSeq(s, i+1, Len(s)), sep)

\* s.split(sep, 1)
Split1(s, sep) ==
    LET i == IndexOf(s, sep)
    IN  IF i = 0 THEN <<s>>
        ELSE <<SubSeq(s, 1, i-1), SubSeq(s, i+1, Len(s))>>

\* s.replace(a, b)
Replace(s, a, b) == [i \in 1..Len(s) |-> IF s[i] = a THEN b ELSE s[i]]

RECURSIVE Strip(_, _)
\* s.strip(tok)
Strip(s, tok) ==
    IF s = <<>> THEN s
    ELSE IF Head(s) = tok THEN Strip(Tail(s), tok)
    ELSE IF s[Len(s)] = tok THEN Strip(SubSeq(s, 1, Len(s)-1), tok)
    ELSE s

RECURSIVE Join(_, _)
\* sep.join(names), for a sequence of single tokens
Join(names, sep) ==
    IF names = <<>> THEN <<>>
    ELSE IF Len(names) = 1 THEN <<names[1]>>
    ELSE <<names[1], sep>> \o Join(Tail(names), sep)

-----------------------------------------------------------------------------
(* The schema of the endpoint under test *)

NoModel == "None"

F(n, t, to) == [name |-> n, type |-> t, to |-> to]

\* model._meta, per model; the names are in get_all_field_names() order
Meta ==
    [m \in {"test_Profile", "test_Client", "test_Salesperson", "test_Item",
            "test_Invoice"} |->
      CASE m = "test_Profile" ->
             << F("first_name", "CharField", NoModel),
                F("id", "AutoField", NoModel),
                F("last_name", "CharField", NoModel),
                F("spy_name", "CharField", NoModel),
                F("test_client", "RelatedObject", "test_Client"),
                F("test_salesperson", "RelatedObject", "test_Salesperson") >>
        [] m = "test_Client" ->
             << F("id", "AutoField", NoModel),
                F("profile", "ForeignKey", "test_Profile"),
                F("test_invoice", "RelatedObject", "test_Invoice"),
                F("wholesale", "BooleanField", NoModel) >>
        [] m = "test_Salesperson" ->
             << F("commission_pct", "IntegerField", NoModel),
                F("id", "AutoField", NoModel),
                F("profile", "ForeignKey", "test_Profile"),
                F("test_invoice", "RelatedObject", "test_Invoice") >>
        [] m = "test_Item" ->
             << F("description", "TextField", NoModel),
                F("id", "AutoField", NoModel),
                F("invoice", "RelatedObject", "test_Invoice"),
                F("price", "DecimalField", NoModel) >>
        [] m = "test_Invoice" ->
             << F("client", "ForeignKey", "test_Client"),
                F("id", "AutoField", NoModel),
                F("items", "ManyToManyField", "test_Item"),
                F("salesperson", "ForeignKey", "test_Salesperson"),
                F("total", "DecimalField", NoModel) >> ]

\* DrilldownTestAPI.model
model == "test_Invoice"

\* model._meta.get_all_field_names()
get_all_field_names(m) == [i \in 1..Len(Meta[m]) |-> Meta[m][i].name]

\* model._meta.get_field_by_name(name)[0]
get_field_by_name(m, name) ==
    CHOOSE f \in Range(Meta[m]) : f.name = name

\* fieldname is a string: it names a field only when it is one name token
is_field_in(m, fieldname) ==
    /\ Len(fieldname) = 1
    /\ InSeq(fieldname[1], get_all_field_names(m))

get_field_type(m, fieldname) == get_field_by_name(m, fieldname[1]).type

get_model(parent_model, fieldname) ==
    LET f == get_field_by_name(parent_model, fieldname[1])
    IN  IF f.type \in {"ForeignKey", "ManyToManyField", "OneToOneField"}
        THEN f.to
        ELSE IF f.type = "RelatedObject" THEN f.to
        ELSE NoModel

-----------------------------------------------------------------------------
(* self.error *)

NoError == [pre |-> "", msg |-> "", arg |-> <<>>]
Err(pre, msg, arg) == [pre |-> pre, msg |-> msg, arg |-> arg]

\* ERROR_STRING in self.error
Contains(err, ERROR_STRING) == err.pre = ERROR_STRING

-----------------------------------------------------------------------------
(* _validate_drilldowns: the accumulator is [vd, err], vd the list            *)
(* validated_drilldowns and err self.error                                    *)

RECURSIVE validate_me_leaf_only(_, _, _, _)
\* validate_me without the intermediate models: a path is appended only when
\* nothing is left to drill into
validate_me_leaf_only(st, current_model, dd_string, current_string) ==
    LET pair == Split1(dd_string, "__")
        fieldname == pair[1]
    IN  IF ~is_field_in(current_model, fieldname)
        THEN [st EXCEPT !.err = Err("Error in drilldowns", "is not a valid field in", fieldname)]
        ELSE LET new_model == get_model(current_model, fieldname)
             IN  IF new_model = NoModel
                 THEN [st EXCEPT !.err = Err("Error in drilldowns", "is not a relation", fieldname)]
                 ELSE LET cs == Strip(current_string \o <<"__">> \o fieldname, "__")
                      IN  IF Len(pair) > 1
                          THEN validate_me_leaf_only(st, new_model, pair[2], cs)
                          ELSE IF ~InSeq(cs, st.vd)
                               THEN [st EXCEPT !.vd = Append(@, cs)]
                               ELSE st

RECURSIVE validate_me(_, _, _, _)
validate_me(st, current_model, dd_string, current_string) ==
    LET pair == Split1(dd_string, "__")
        fieldname == pair[1]
    IN  IF ~is_field_in(current_model, fieldname)
        THEN [st EXCEPT !.err = Err("Error in drilldowns", "is not a valid field in", fieldname)]
        ELSE LET new_model == get_model(current_model, fieldname)
             IN  IF new_model = NoModel
                 THEN [st EXCEPT !.err = Err("Error in drilldowns", "is not a relation", fieldname)]
                 ELSE LET cs == Strip(current_string \o <<"__">> \o fieldname, "__")
                          st1 == IF ~InSeq(cs, st.vd)
                                 THEN [st EXCEPT !.vd = Append(@, cs)]
                                 ELSE st
                      IN  IF Len(pair) > 1
                          THEN validate_me(st1, new_model, pair[2], cs)
                          ELSE st1

RECURSIVE validate_each(_, _)
\* for dd in drilldowns: validate_me(self.model, dd)
validate_each(st, dds) ==
    IF dds = <<>> THEN st
    ELSE validate_each(validate_me(st, model, Head(dds), <<>>), Tail(dds))

\* returns [vd, err]: the returned list and self.error afterwards
_validate_drilldowns(dds, err) ==
    LET st == validate_each([vd |-> <<>>, err |-> err], dds)
    IN  IF Contains(st.err, "Error in drilldowns")
        THEN [st EXCEPT !.vd = <<>>]
        ELSE st

-----------------------------------------------------------------------------
(* _create_fields_map: the accumulator is [fm, sel, pre, err]: the nested     *)
(* dict fields_map as the set of its key paths, self.select_relateds,         *)
(* self.prefetch_relateds and self.error.  current_map is the path of the     *)
(* dict being filled.                                                         *)

\* (fname_prefix + fname).strip('.') in self.hide_fields
all_skips(h, current_related, fname) ==
    LET fname_prefix == Replace(current_related, "__", ".") \o <<".">>
    IN  InSeq(Strip(fname_prefix \o <<fname>>, "."), h)

\* the related-field test of the ALL branch widened to every relation type
all_out_of_range_any(dd, current_model, current_related, fname) ==
    /\ get_field_type(current_model, <<fname>>)
          \in {"ForeignKey", "OneToOneField", "RelatedObject", "ManyToManyField"}
    /\ ~InSeq(Strip(current_related \o <<"__", fname>>, "__"), dd)

\* field_type in [ManyToManyField] and temp not in self.drilldowns
all_out_of_range(dd, current_model, current_related, fname) ==
    /\ get_field_type(current_model, <<fname>>) \in {"ManyToManyField"}
    /\ ~InSeq(Strip(current_related \o <<"__", fname>>, "__"), dd)

RECURSIVE add_to_fields_map(_, _, _, _, _, _, _)
RECURSIVE add_all(_, _, _, _, _, _, _)

RECURSIVE add_to_fields_map_any_path(_, _, _, _, _, _, _)
\* add_to_fields_map without the test of current_related against
\* self.drilldowns: every relation path is drilled into
add_to_fields_map_any_path(st, dd, h, current_model, current_map, dot_string, current_related) ==
    LET pair == Split1(dot_string, ".")
        fieldname == pair[1]
        there_are_subfields == Len(pair) > 1
    IN  IF ~(fieldname = <<"ALL">> \/ is_field_in(current_model, fieldname))
        THEN [st EXCEPT !.err = Err("Error in fields", "is not a valid field", dot_string)]
        ELSE IF fieldname = <<"ALL">>
        THEN add_all(st, dd, h, current_model, current_map,
                     get_all_field_names(current_model), current_related)
        ELSE
          LET sub_map == Append(current_map, fieldname[1])
              st1 == [st EXCEPT !.fm = @ \cup {sub_map}]
              new_model == get_model(current_model, fieldname)
              field_type == get_field_type(current_model, fieldname)
          IN  IF new_model # NoModel
                 /\ (field_type = "ManyToManyField" \/ there_are_subfields)
              THEN
                LET related == Strip(current_related \o <<"__">> \o fieldname, "__")
                    st2 == IF field_type \in {"ForeignKey", "OneToOneField", "RelatedObject"}
                           THEN [st1 EXCEPT !.sel = Append(@, related)]
                           ELSE [st1 EXCEPT !.pre = Append(@, related)]
                IN  IF there_are_subfields
                    THEN add_to_fields_map_any_path(st2, dd, h, new_model, sub_map,
                                                    pair[2], related)
                    ELSE add_to_fields_map_any_path(st2, dd, h, new_model, sub_map,
                                                    <<"id">>, <<>>)
              ELSE IF there_are_subfields
              THEN [st1 EXCEPT !.err = Err("Error in fields", "not valid field", dot_string)]
              ELSE st1

\* the loop of the ALL branch over names, the rest of get_all_field_names()
add_all(st, dd, h, current_model, current_map, names, current_related) ==
    IF names = <<>> THEN st
    ELSE LET fname == Head(names)
             st1 == IF all_skips(h, current_related, fname) THEN st
                    ELSE IF all_out_of_range(dd, current_model, current_related, fname)
                    THEN st
                    ELSE add_to_fields_map(st, dd, h, current_model, current_map,
                                           <<fname>>, current_related)
         IN  add_all(st1, dd, h, current_model, current_map, Tail(names),
                     current_related)

add_to_fields_map(st, dd, h, current_model, current_map, dot_string, current_related) ==
    LET pair == Split1(dot_string, ".")
        fieldname == pair[1]
        there_are_subfields == Len(pair) > 1
    IN  IF ~(fieldname = <<"ALL">> \/ is_field_in(current_model, fieldname))
        THEN [st EXCEPT !.err = Err("Error in fields", "is not a valid field", dot_string)]
        ELSE IF fieldname = <<"ALL">>
        THEN add_all(st, dd, h, current_model, current_map,
                     get_all_field_names(current_model), current_related)
        ELSE
          LET sub_map == Append(current_map, fieldname[1])
              st1 == [st EXCEPT !.fm = @ \cup {sub_map}]
              new_model == get_model(current_model, fieldname)
              field_type == get_field_type(current_model, fieldname)
          IN  IF new_model # NoModel
                 /\ (field_type = "ManyToManyField" \/ there_are_subfields)
              THEN
                LET related == Strip(current_related \o <<"__">> \o fieldname, "__")
                IN  IF InSeq(related, dd)
                    THEN
                      LET st2 == IF field_type \in {"ForeignKey", "OneToOneField", "RelatedObject"}
                                 THEN [st1 EXCEPT !.sel = Append(@, related)]
                                 ELSE [st1 EXCEPT !.pre = Append(@, related)]
                      IN  IF there_are_subfields
                          THEN add_to_fields_map(st2, dd, h, new_model, sub_map,
                                                 pair[2], related)
                          ELSE add_to_fields_map(st2, dd, h, new_model, sub_map,
                                                 <<"id">>, <<>>)
                    ELSE [st1 EXCEPT !.err = Err("Error in fields", "is not valid",
                                                 Replace(related, "__", "."))]
              ELSE IF there_are_subfields
              THEN [st1 EXCEPT !.err = Err("Error in fields", "not valid field", dot_string)]
              ELSE st1

RECURSIVE add_each_field(_, _, _, _)
\* for fieldname in fields: add_to_fields_map(self.model, fields_map, fieldname)
add_each_field(st, dd, h, fs) ==
    IF fs = <<>> THEN st
    ELSE add_each_field(add_to_fields_map(st, dd, h, model, <<>>, Head(fs), <<>>),
                        dd, h, Tail(fs))

\* returns [fm, sel, pre, err]
_create_fields_map(fs, dd, h, sel, pre, err) ==
    LET st == add_each_field([fm |-> {}, sel |-> sel, pre |-> pre, err |-> err],
                             dd, h, fs)
    IN  IF Contains(st.err, "Error in fields")
        THEN [st EXCEPT !.fm = {}]
        ELSE st

-----------------------------------------------------------------------------
(* Request parameters and Python values *)

PyStr(s) == [t |-> "str", s |-> s]
PyTrue == [t |-> "bool", s |-> <<"True">>]
PyFalse == [t |-> "bool", s |-> <<"False">>]

HasKey(d, k) == \E i \in 1..Len(d) : d[i].k = k

\* d[k]
Lookup(d, k) == (CHOOSE e \in Range(d) : e.k = k).v

\* d.get(k, ''): the text of parameter k, empty when it is absent
Get(d, k) == IF HasKey(d, k) THEN Lookup(d, k) ELSE <<>>

\* d[k] = v
DictSet(d, k, v) ==
    IF HasKey(d, k)
    THEN [i \in 1..Len(d) |-> IF d[i].k = k THEN [k |-> k, v |-> v] ELSE d[i]]
    ELSE Append(d, [k |-> k, v |-> v])

\* the integers whose decimal text a modelled request can carry
ParamInts == (-2..(MaxSmall + 1)) \cup {100, GLOBAL_THROTTLE + 1}

\* int_or_none(value) or 0
int_or_none_or_0(value) ==
    IF Len(value) = 1 /\ \E n \in ParamInts : ToString(n) = value[1]
    THEN CHOOSE n \in ParamInts : ToString(n) = value[1]
    ELSE 0

\* h.replace('__', '.') for h in self.hide
HideFields(h) == [i \in 1..Len(h) |-> Replace(h[i], "__", ".")]

\* set(['fields', 'limit', 'offset', 'format', 'order_by'] + self.ignore + self.hide_fields)
IgnoreFields(ig, hf) ==
    {<<"fields">>, <<"limit">>, <<"offset">>, <<"format">>, <<"order_by">>}
        \cup Range(ig) \cup Range(hf)

\* the test of the whole key, operator suffix included, against ignore_fields
is_filter_whole_key(f, igf) == f \notin igf

\* f.split('__')[0] not in self.ignore_fields
is_filter(f, igf) == Split(f, "__")[1] \notin igf

RECURSIVE get_filters(_, _)
\* the keys of filters, in the order the request parameters are iterated
get_filters(params, igf) ==
    IF params = <<>> THEN <<>>
    ELSE (IF is_filter(Head(params).k, igf) THEN <<Head(params).k>> ELSE <<>>)
            \o get_filters(Tail(params), igf)

\* fields = QUERY_PARAMS.get('fields', []); fields and fields.split(',')
get_fields(params) ==
    LET v == Get(params, <<"fields">>)
    IN  IF v = <<>> THEN <<>> ELSE Split(v, ",")

-----------------------------------------------------------------------------
(* _set_filter_kwargs *)

\* operation = '__' + pair[1], or '' when the key holds no '__'
operation_of(p) ==
    LET pair == Split(p, "__")
    IN  IF Len(pair) > 1 THEN <<"__">> \o pair[2] ELSE <<>>

RECURSIVE do_filter(_, _, _, _, _)
\* returns [fs, err]: the returned string (empty for None) and self.error
do_filter(err, dd, dot_string, filter_string, current_model) ==
    LET parts == Split1(dot_string, ".")
        fieldname == parts[1]
        fs == Strip(filter_string \o <<"__">> \o fieldname, "__")
        leftover == IF Len(parts) > 1 THEN parts[2] ELSE <<>>
    IN  IF ~is_field_in(current_model, fieldname)
        THEN [fs |-> <<>>, err |-> Err("", "is not a valid filter", fieldname)]
        ELSE IF leftover # <<>>
        THEN IF ~InSeq(fs, dd)
             THEN [fs |-> <<>>, err |-> Err("Error in filters", "", Replace(fs, "__", "."))]
             ELSE IF get_field_type(current_model, fieldname)
                       \notin {"ForeignKey", "OneToOneField", "RelatedObject", "ManyToManyField"}
             THEN [fs |-> <<>>, err |-> Err("Error", "has no children", fs)]
             ELSE do_filter(err, dd, leftover, fs, get_model(current_model, fieldname))
        ELSE [fs |-> fs, err |-> err]

RECURSIVE filter_each(_, _, _, _)
\* for p in filters: ...; the accumulator is [kw, err]
filter_each(st, fs, params, dd) ==
    IF fs = <<>> THEN st
    ELSE LET p == Head(fs)
             dot_string == Split(p, "__")[1]
             r == do_filter(st.err, dd, dot_string, <<>>, model)
             kw == IF r.fs # <<>>
                   THEN DictSet(st.kw, r.fs \o operation_of(p), PyStr(Lookup(params, p)))
                   ELSE st.kw
         IN  filter_each([kw |-> kw, err |-> r.err], Tail(fs), params, dd)

\* 'true'/'True' -> True, 'false'/'False' -> False
coerce(v) ==
    IF v \in {PyStr(<<"true">>), PyStr(<<"True">>)} THEN PyTrue
    ELSE IF v \in {PyStr(<<"false">>), PyStr(<<"False">>)} THEN PyFalse
    ELSE v

\* returns [kw, err]
_set_filter_kwargs(fs, params, dd, err) ==
    LET st == filter_each([kw |-> <<>>, err |-> err], fs, params, dd)
    IN  [st EXCEPT !.kw = [i \in 1..Len(st.kw) |->
                              [k |-> st.kw[i].k, v |-> coerce(st.kw[i].v)]]]

-----------------------------------------------------------------------------
(* The query engine, as get() uses it *)

RelationTypes == {"ForeignKey", "OneToOneField", "RelatedObject", "ManyToManyField"}

\* the lookup operators of the engine
Lookups == {"exact", "iexact", "gt", "gte", "lt", "lte", "isnull",
            "istartswith", "contains"}

RECURSIVE resolve(_, _, _)
\* The engine's reading of the parts of a keyword: field names from model m
\* on, then at most one lookup operator.  [ok, path, type]: whether it
\* resolves, the fields walked, and the type of the last one.
resolve(m, parts, acc) ==
    IF parts = <<>>
    THEN [ok |-> acc # <<>>, path |-> acc, type |-> "", lookup |-> ""]
    ELSE LET p == Head(parts)
         IN  IF is_field_in(m, p)
             THEN LET to == get_model(m, p)
                      ty == get_field_type(m, p)
                      rest == Tail(parts)
                  IN  IF to # NoModel /\ rest # <<>>
                         /\ ~(Len(rest) = 1 /\ Len(rest[1]) = 1 /\ rest[1][1] \in Lookups)
                      THEN resolve(to, rest, Append(acc, p[1]))
                      ELSE IF rest = <<>>
                      THEN [ok |-> TRUE, path |-> Append(acc, p[1]), type |-> ty,
                            lookup |-> ""]
                      ELSE IF Len(rest) = 1 /\ Len(rest[1]) = 1 /\ rest[1][1] \in Lookups
                      THEN [ok |-> TRUE, path |-> Append(acc, p[1]), type |-> ty,
                            lookup |-> rest[1][1]]
                      ELSE [ok |-> FALSE, path |-> Append(acc, p[1]), type |-> ty,
                            lookup |-> ""]
             ELSE [ok |-> FALSE, path |-> acc, type |-> "", lookup |-> ""]

Resolve(key) == resolve(model, Split(key, "__"), <<>>)

IsNumeral(s) == Len(s) = 1 /\ \E n \in ParamInts : ToString(n) = s[1]

\* qs.filter(**kwargs) raises FieldError: some keyword does not resolve
FilterFieldError(kw) == \E i \in 1..Len(kw) : ~Resolve(kw[i].k).ok

\* qs.filter(**kwargs) raises ValueError: text that is no number compared
\* with an integer column
FilterValueError(kw) ==
    \E i \in 1..Len(kw) :
        LET r == Resolve(kw[i].k)
        IN  /\ r.ok
            /\ r.type \in {"AutoField", "IntegerField", "ForeignKey"}
            /\ r.lookup \in {"", "exact", "gt", "gte", "lt", "lte"}
            /\ kw[i].v.t = "str"
            /\ ~IsNumeral(kw[i].v.s)

\* order_by = QUERY_PARAMS.get('order_by', '').replace('.', '__'), split on ','
get_order_by(params) ==
    LET v == Replace(Get(params, <<"order_by">>), ".", "__")
    IN  IF v = <<>> THEN <<>> ELSE Split(v, ",")

\* the engine rejects an ordering, when the rows are fetched, unless every
\* entry is a chain of fields, with an optional leading '-'
OrderFieldError(order_by) ==
    \E i \in 1..Len(order_by) :
        LET e == IF order_by[i] # <<>> /\ Head(order_by[i]) = "-"
                 THEN Tail(order_by[i]) ELSE order_by[i]
            r == Resolve(e)
        IN  ~(r.ok /\ r.lookup = "")

Call(op, args, kw, lo, hi) == [op |-> op, args |-> args, kw |-> kw, lo |-> lo, hi |-> hi]

\* no stop in a slice
NoStop == -1

-----------------------------------------------------------------------------
(* DrilldownSerializerFactory: the shape of one output record *)

\* the keys of the dict at path P of the nested dict fm
Keys(fm, P) ==
    {p[Len(p)] : p \in {q \in fm : Len(q) = Len(P) + 1 /\ SubSeq(q, 1, Len(P)) = P}}

\* list(self.fields) of a fresh ModelSerializer: the model's own fields
SerializerFields(m) ==
    {Meta[m][i].name : i \in {j \in 1..Len(Meta[m]) : Meta[m][j].type # "RelatedObject"}}

\* sub_fm, with no exception for {'id': {}}
wants_sub_serializer_any(fm, P) == Keys(fm, P) # {}

\* sub_fm and sub_fm != {'id': {}}
wants_sub_serializer(fm, P) ==
    /\ Keys(fm, P) # {}
    /\ ~(Keys(fm, P) = {"id"} /\ Keys(fm, Append(P, "id")) = {})

RECURSIVE prune_fields(_, _, _)
\* [keys, nested]: the key paths of an output record below P, and the paths
\* among them that hold records of a sub-serializer
prune_fields(fm, m, P) ==
    LET requested == Keys(fm, P)
        subs == {f \in requested :
                    /\ wants_sub_serializer(fm, Append(P, f))
                    /\ get_field_type(m, <<f>>) \in RelationTypes}
        kept == (requested \cap SerializerFields(m)) \cup subs
        below == [f \in subs |-> prune_fields(fm, get_model(m, <<f>>), Append(P, f))]
    IN  [keys |-> {Append(P, f) : f \in kept}
                    \cup UNION {below[f].keys : f \in subs},
         nested |-> {Append(P, f) : f \in subs}
                    \cup UNION {below[f].nested : f \in subs}]

\* Serializer.__init__ with fields_map
Serializer(fm) ==
    IF fm # {} THEN prune_fields(fm, model, <<>>)
    ELSE [keys |-> {<<"id">>}, nested |-> {}]

EmptyBody == [from |-> 0, n |-> 0, keys |-> {}, nested |-> {}]

NoHeaders == [has_error |-> FALSE, X_Query_Error |-> NoError,
              has_total |-> FALSE, X_Total_Count |-> 0]

ErrorHeaders(msg) == [NoHeaders EXCEPT !.has_error = TRUE, !.X_Query_Error = msg]

-----------------------------------------------------------------------------
(* Offset, limit and the total count *)

\* the requested limit taken as it is: no default, no THROTTLE
effective_limit_as_requested(has, throttle, requested) == requested

\* min(getattr(self, 'THROTTLE', self.GLOBAL_THROTTLE), self.limit or self.GLOBAL_THROTTLE)
effective_limit(has, throttle, requested) ==
    Min(IF has THEN throttle ELSE GLOBAL_THROTTLE,
        IF requested # 0 THEN requested ELSE GLOBAL_THROTTLE)

\* the slice taken of the query: [sliced, lo, hi], hi = NoStop for an open end
page_slice(lim, off) ==
    IF lim # 0 /\ off # 0 THEN [sliced |-> TRUE, lo |-> off, hi |-> lim + off]
    ELSE IF lim # 0 THEN [sliced |-> TRUE, lo |-> 0, hi |-> lim]
    ELSE IF off # 0 THEN [sliced |-> TRUE, lo |-> off, hi |-> NoStop]
    ELSE [sliced |-> FALSE, lo |-> 0, hi |-> NoStop]

\* the engine asserts that neither end of a slice is negative
SliceFaults(sl, lim, off) ==
    /\ sl.sliced
    /\ \/ sl.lo < 0
       \/ (lim # 0 /\ sl.hi < 0)

\* rows of the page: those of the n matching rows the slice selects
page_len(sl, n) ==
    IF ~sl.sliced THEN n
    ELSE IF sl.hi = NoStop THEN Max(0, n - sl.lo)
    ELSE Max(0, Min(sl.hi, n) - sl.lo)

\* the count query is run
needs_count(off, lim, len_data) == off # 0 \/ (len_data # 0 /\ len_data = lim)

\* the total taken from the page in every case
total_count_of_page(off, lim, len_data, n) == len_data

\* total_count: queryset_for_count.count() or len(data)
total_count(off, lim, len_data, n) ==
    IF needs_count(off, lim, len_data) THEN n ELSE len_data

-----------------------------------------------------------------------------
(* get(), stage by stage *)

\* if self.error: return _error(self.error)
after_stage(err, next) == IF err # NoError THEN "done" ELSE next

Respond400(msg) ==
    /\ status' = 400
    /\ data' = EmptyBody
    /\ headers' = ErrorHeaders(msg)

NoResponse == UNCHANGED <<status, data, headers>>

Config == <<declared, hide, ignore, has_throttle, THROTTLE, base_query,
            QUERY_PARAMS, nmatch, hide_fields, ignore_fields>>

\* lines 86-98: the fields list, the filters, the base query
Start ==
    /\ pc = "start"
    /\ stages' = Append(stages, "base_query")
    /\ fields' = get_fields(QUERY_PARAMS)
    /\ filters' = get_filters(QUERY_PARAMS, ignore_fields)
    /\ IF ~base_query
       THEN /\ Respond400(Err("API error", "get_base_query() missing or invalid", <<>>))
            /\ pc' = "done"
       ELSE /\ NoResponse
            /\ pc' = "drilldowns"
    /\ UNCHANGED <<error, drilldowns, fields_map, select_relateds,
                   prefetch_relateds, filter_kwargs, offset, limit, calls>>
    /\ UNCHANGED Config

\* lines 100-103
ValidateDrilldowns ==
    /\ pc = "drilldowns"
    /\ stages' = Append(stages, "drilldowns")
    /\ LET r == _validate_drilldowns(drilldowns, error)
       IN  /\ drilldowns' = r.vd
           /\ error' = r.err
           /\ pc' = after_stage(r.err, "fields")
           /\ IF after_stage(r.err, "fields") = "done"
              THEN Respond400(r.err) ELSE NoResponse
    /\ UNCHANGED <<fields, filters, fields_map, select_relateds,
                   prefetch_relateds, filter_kwargs, offset, limit, calls>>
    /\ UNCHANGED Config

\* _create_fields_map followed by no test of self.error
after_fields_unchecked(err) == "filters"

\* the position after _create_fields_map
after_fields(err) == after_stage(err, "filters")

\* lines 105-108
CreateFieldsMap ==
    /\ pc = "fields"
    /\ stages' = Append(stages, "fields")
    /\ LET r == _create_fields_map(fields, drilldowns, hide_fields,
                                   select_relateds, prefetch_relateds, error)
       IN  /\ fields_map' = r.fm
           /\ select_relateds' = r.sel
           /\ prefetch_relateds' = r.pre
           /\ error' = r.err
           /\ pc' = after_fields(r.err)
           /\ IF after_fields(r.err) = "done"
              THEN Respond400(r.err) ELSE NoResponse
    /\ UNCHANGED <<drilldowns, fields, filters, filter_kwargs, offset, limit, calls>>
    /\ UNCHANGED Config

\* lines 110-113
SetFilterKwargs ==
    /\ pc = "filters"
    /\ stages' = Append(stages, "filters")
    /\ LET r == _set_filter_kwargs(filters, QUERY_PARAMS, drilldowns, error)
       IN  /\ filter_kwargs' = r.kw
           /\ error' = r.err
           /\ pc' = after_stage(r.err, "query")
           /\ IF after_stage(r.err, "query") = "done"
              THEN Respond400(r.err) ELSE NoResponse
    /\ UNCHANGED <<drilldowns, fields, filters, fields_map, select_relateds,
                   prefetch_relateds, offset, limit, calls>>
    /\ UNCHANGED Config

\* lines 115-130: the relateds and the filters go to the engine
Filter ==
    /\ pc = "query"
    /\ stages' = Append(stages, "query")
    /\ LET c1 == IF select_relateds # <<>>
                 THEN <<Call("select_related", select_relateds, <<>>, 0, NoStop)>>
                 ELSE <<>>
           c2 == IF prefetch_relateds # <<>>
                 THEN <<Call("prefetch_related", prefetch_relateds, <<>>, 0, NoStop)>>
                 ELSE <<>>
           c3 == <<Call("filter", <<>>, filter_kwargs, 0, NoStop)>>
       IN  IF FilterFieldError(filter_kwargs)
           THEN /\ calls' = calls \o c1 \o c2 \o c3 \o <<Call("none", <<>>, <<>>, 0, NoStop)>>
                /\ Respond400(Err("", "Bad filter parameter in query.", <<>>))
                /\ pc' = "done"
           ELSE IF FilterValueError(filter_kwargs)
           THEN /\ calls' = calls \o c1 \o c2 \o c3 \o <<Call("none", <<>>, <<>>, 0, NoStop)>>
                /\ Respond400(Err("", "Bad filter value in query", <<>>))
                /\ pc' = "done"
           ELSE /\ calls' = calls \o c1 \o c2 \o c3
                /\ NoResponse
                /\ pc' = "page"
    /\ UNCHANGED <<error, drilldowns, fields, filters, fields_map, select_relateds,
                   prefetch_relateds, filter_kwargs, offset, limit>>
    /\ UNCHANGED Config

\* lines 132-148: ordering, offset and limit
OrderAndSlice ==
    /\ pc = "page"
    /\ LET order_by == get_order_by(QUERY_PARAMS)
           off == int_or_none_or_0(Get(QUERY_PARAMS, <<"offset">>))
           lim == effective_limit(has_throttle, THROTTLE,
                                  int_or_none_or_0(Get(QUERY_PARAMS, <<"limit">>)))
           sl == page_slice(lim, off)
           c1 == IF order_by # <<>>
                 THEN <<Call("order_by", order_by, <<>>, 0, NoStop)>> ELSE <<>>
           c2 == IF sl.sliced THEN <<Call("slice", <<>>, <<>>, sl.lo, sl.hi)>> ELSE <<>>
       IN  /\ offset' = off
           /\ limit' = lim
           /\ calls' = calls \o c1 \o c2
           /\ IF SliceFaults(sl, lim, off)
              THEN /\ status' = 500
                   /\ UNCHANGED <<data, headers>>
                   /\ pc' = "done"
              ELSE /\ NoResponse
                   /\ pc' = "serialize"
    /\ UNCHANGED <<error, drilldowns, fields, filters, fields_map, select_relateds,
                   prefetch_relateds, filter_kwargs, stages>>
    /\ UNCHANGED Config

\* lines 150-167: the rows are fetched and serialized, the total is counted
Respond ==
    /\ pc = "serialize"
    /\ pc' = "done"
    /\ LET sl == page_slice(limit, offset)
           len_data == page_len(sl, nmatch)
           shape == Serializer(fields_map)
           fetch == <<Call("fetch", <<>>, <<>>, sl.lo, sl.hi)>>
       IN  IF OrderFieldError(get_order_by(QUERY_PARAMS))
           THEN /\ calls' = calls \o fetch
                /\ Respond400(Err("Error", "May be bad field name in order_by", <<>>))
           ELSE /\ calls' = calls \o fetch \o
                        (IF needs_count(offset, limit, len_data)
                         THEN <<Call("count", <<>>, <<>>, 0, NoStop)>> ELSE <<>>)
                /\ status' = 200
                /\ data' = [from |-> sl.lo, n |-> len_data,
                            keys |-> shape.keys, nested |-> shape.nested]
                /\ headers' = [NoHeaders EXCEPT
                                 !.has_total = TRUE,
                                 !.X_Total_Count = total_count(offset, limit, len_data, nmatch)]
    /\ UNCHANGED <<error, drilldowns, fields, filters, fields_map, select_relateds,
                   prefetch_relateds, filter_kwargs, offset, limit, stages>>
    /\ UNCHANGED Config

Next ==
    \/ Start
    \/ ValidateDrilldowns
    \/ CreateFieldsMap
    \/ SetFilterKwargs
    \/ Filter
    \/ OrderAndSlice
    \/ Respond

-----------------------------------------------------------------------------
(* The endpoints and requests tried *)

Dot(names) == Join(names, ".")
DUnder(names) == Join(names, "__")
Param(k, v) == [k |-> k, v |-> v]

\* all sequences over S of length at most n
SeqsUpTo(S, n) == UNION {[1..k -> S] : k \in 0..n}

\* sequences of entries with distinct keys
DistinctKeys(ps) == \A i, j \in 1..Len(ps) : i # j => ps[i].k # ps[j].k

RECURSIVE ChainsFrom(_, _)
\* the chains of at most n relation fields that start at model m
ChainsFrom(m, n) ==
    IF n = 0 THEN {}
    ELSE UNION {
           {<<Meta[m][i].name>>}
             \cup {<<Meta[m][i].name>> \o c : c \in ChainsFrom(Meta[m][i].to, n - 1)}
           : i \in {j \in 1..Len(Meta[m]) : Meta[m][j].to # NoModel}}

\* drilldowns = ['client__profile', 'salesperson__profile', 'items']
TestDrilldowns ==
    << DUnder(<<"client", "profile">>), DUnder(<<"salesperson", "profile">>),
       <<"items">> >>

\* hide = ['salesperson__commission_pct']
TestHide == << DUnder(<<"salesperson", "commission_pct">>) >>

\* ignore = ['fakefield']
TestIgnore == << <<"fakefield">> >>

\* rows of test_Invoice that setUp creates
TestRows == 5

\* declared paths that are no chain of relations
BadDrills == { <<"total">>, <<"bogus">>, DUnder(<<"client", "wholesale">>) }

DrillStrings == {DUnder(c) : c \in ChainsFrom(model, MaxSegs)} \cup BadDrills

DeclaredConfigs ==
    { <<>>, TestDrilldowns, << <<"items">> >>, << <<"client">> >>,
      << DUnder(<<"items", "invoice">>) >> }

HideConfigs == { <<>>, TestHide, << <<"total">> >> }

FieldStrings ==
    { <<"ALL">>, <<"client">>, <<"items">>, <<"total">>, <<"bogus">>,
      Dot(<<"items", "id">>), Dot(<<"items", "price">>), Dot(<<"items", "ALL">>),
      Dot(<<"client", "ALL">>), Dot(<<"client", "profile", "ALL">>),
      Dot(<<"salesperson", "ALL">>), Dot(<<"salesperson", "commission_pct">>),
      Dot(<<"salesperson", "profile", "first_name">>), Dot(<<"total", "x">>),
      Dot(<<"items", "invoice", "total">>) }

RECURSIVE JoinStrings(_, _)
\* sep.join(strings)
JoinStrings(ss, sep) ==
    IF ss = <<>> THEN <<>>
    ELSE IF Len(ss) = 1 THEN ss[1]
    ELSE ss[1] \o <<sep>> \o JoinStrings(Tail(ss), sep)

\* the request parameters that carry a fields list of at most n entries
FieldsParams(n) ==
    {IF fs = <<>> THEN <<>> ELSE <<Param(<<"fields">>, JoinStrings(fs, ","))>>
        : fs \in SeqsUpTo(FieldStrings, n)}

FilterEntries ==
    { Param(Dot(<<"salesperson", "profile", "first_name">>), <<"Ann">>),
      Param(DUnder(<<"salesperson", "isnull">>), <<"true">>),
      Param(Dot(<<"salesperson", "profile", "dog_name">>), <<"Freddyboy">>),
      Param(DUnder(<<"fakefield", "lt">>), <<"3">>),
      Param(<<"fakefield">>, <<"x">>),
      Param(DUnder(<<"client", "wholesale">>), <<"true">>),
      Param(Dot(<<"client", "wholesale">>), <<"False">>),
      Param(Dot(<<"client", "profile">>) \o <<"__", "first_name">>, <<"Mary">>),
      Param(DUnder(<<"salesperson", "commission_pct">>), <<"3">>),
      Param(Dot(<<"salesperson", "commission_pct">>), <<"3">>),
      Param(Dot(<<"salesperson", "commission_pct">>) \o <<"__", "gt">>, <<"3">>),
      Param(DUnder(<<"total", "gt">>), <<"100">>),
      Param(<<"total">>, <<"3">>),
      Param(Dot(<<"items", "price">>), <<"3">>),
      Param(Dot(<<"total", "x">>), <<"3">>),
      Param(<<"id">>, <<"x">>) }

FilterParams(n) == {ps \in SeqsUpTo(FilterEntries, n) : DistinctKeys(ps)}

\* texts of limit and offset, the empty text for an absent parameter
NumberTexts == {<<>>, <<"abc">>} \cup {<<ToString(n)>> : n \in -1..MaxSmall}

PageParams ==
    {(IF l = <<>> THEN <<>> ELSE <<Param(<<"limit">>, l)>>)
        \o (IF o = <<>> THEN <<>> ELSE <<Param(<<"offset">>, o)>>)
        : l \in NumberTexts \cup {<<"100">>, <<ToString(GLOBAL_THROTTLE + 1)>>},
          o \in NumberTexts}

OrderParams ==
    { <<>>, <<Param(<<"order_by">>, <<"total">>)>>,
      <<Param(<<"order_by">>, <<"-">> \o Dot(<<"client", "profile", "first_name">>))>>,
      <<Param(<<"order_by">>, <<"bogus">>)>> }

RowCounts ==
    (0..(MaxSmall + 2)) \cup {GLOBAL_THROTTLE, GLOBAL_THROTTLE + 1, GLOBAL_THROTTLE + 2}

\* the state of a fresh view instance (__init__) that is handed a request
InitWith(dcl, hd, ig, has, thr, bq, params, n) ==
    /\ declared = dcl
    /\ hide = hd
    /\ ignore = ig
    /\ has_throttle = has
    /\ THROTTLE = thr
    /\ base_query = bq
    /\ QUERY_PARAMS = params
    /\ nmatch = n
    /\ pc = "start"
    /\ error = NoError
    /\ drilldowns = dcl
    /\ hide_fields = HideFields(hd)
    /\ ignore_fields = IgnoreFields(ig, HideFields(hd))
    /\ fields = <<>>
    /\ filters = <<>>
    /\ fields_map = {}
    /\ select_relateds = <<>>
    /\ prefetch_relateds = <<>>
    /\ filter_kwargs = <<>>
    /\ offset = 0
    /\ limit = 0
    /\ data = EmptyBody
    /\ status = 0
    /\ headers = NoHeaders
    /\ calls = <<>>
    /\ stages = <<>>

\* endpoints that differ in their declared drilldowns
InitDrill ==
    \E dcl \in SeqsUpTo(DrillStrings, MaxDeclared) :
        InitWith(dcl, TestHide, TestIgnore, FALSE, 0, TRUE, <<>>, TestRows)

\* requests that differ in their fields parameter
InitFields ==
    \E dcl \in DeclaredConfigs, hd \in HideConfigs, ps \in FieldsParams(MaxFields) :
        InitWith(dcl, hd, TestIgnore, FALSE, 0, TRUE, ps, TestRows)

IgnoreConfigs == { TestIgnore, << <<"fakefield">>, <<"total">> >> }

\* requests that differ in their filter parameters
InitFilter ==
    \E dcl \in DeclaredConfigs, hd \in {<<>>, TestHide}, ig \in IgnoreConfigs,
       ps \in FilterParams(MaxFilters) :
        InitWith(dcl, hd, ig, FALSE, 0, TRUE, ps, TestRows)

\* requests that differ in limit and offset, over tables of several sizes
InitPage ==
    \E has \in BOOLEAN, thr \in (0..MaxSmall) \cup {GLOBAL_THROTTLE + 1},
       ps \in PageParams, n \in RowCounts :
        /\ (~has => thr = 0)
        /\ InitWith(TestDrilldowns, TestHide, TestIgnore, has, thr, TRUE, ps, n)

\* requests that fail at each of the stages
InitStages ==
    \E bq \in BOOLEAN, dcl \in {TestDrilldowns, << <<"bogus">> >>},
       f \in FieldsParams(1), fl \in FilterParams(1), o \in OrderParams :
        InitWith(dcl, TestHide, TestIgnore, FALSE, 0, bq, f \o fl \o o, TestRows)

Init == InitDrill \/ InitFields \/ InitFilter \/ InitPage \/ InitStages

Spec == Init /\ [][Next]_vars


-----------------------------------------------------------------------------
(* Vocabulary of the properties *)

StageOrder == <<"base_query", "drilldowns", "fields", "filters", "query">>

Ran(stage) == InSeq(stage, stages)

Last(s) == s[Len(s)]

\* a sequence of names as a sequence of one-name strings
AsStrings(names) == [i \in 1..Len(names) |-> <<names[i]>>]

RECURSIVE ModelAt(_, _)
\* the model reached from m along parts when each is a relation field of the
\* model before it, NoModel otherwise
ModelAt(m, parts) ==
    IF parts = <<>> THEN m
    ELSE IF m # NoModel /\ is_field_in(m, Head(parts))
            /\ get_model(m, Head(parts)) # NoModel
    THEN ModelAt(get_model(m, Head(parts)), Tail(parts))
    ELSE NoModel

\* the relation paths a key reaches across, '.' and '__' read alike: the
\* proper prefixes that are chains of relations and are followed by a field
\* of the entity they lead to
RelationHops(key) ==
    LET parts == Split(Replace(key, ".", "__"), "__")
    IN  {JoinStrings(SubSeq(parts, 1, k), "__") :
            k \in {j \in 1..(Len(parts) - 1) :
                     LET m == ModelAt(model, SubSeq(parts, 1, j))
                     IN  m # NoModel /\ is_field_in(m, parts[j + 1])}}

FilterCalls == {i \in 1..Len(calls) : calls[i].op = "filter"}

\* the text is absent or the decimal text of an integer that is not negative
AbsentOrNatural(text) ==
    \/ text = <<>>
    \/ /\ IsNumeral(text)
       /\ int_or_none_or_0(text) >= 0

\* the non-hidden fields of the entity at path P that ALL leaves in when a
\* relation of one of the types in checked is kept only inside dd
AllExpansion(P, dd, hf, checked) ==
    LET m == ModelAt(model, AsStrings(P))
    IN  {f \in Range(get_all_field_names(m)) :
            /\ ~InSeq(Dot(Append(P, f)), hf)
            /\ (get_field_type(m, <<f>>) \in checked
                    => InSeq(DUnder(Append(P, f)), dd))}

\* the position of the first ALL among the pieces of a dotted string when
\* single names come before it, 0 otherwise
AllAt(pieces) ==
    LET i == IndexOf(pieces, <<"ALL">>)
    IN  IF i > 0 /\ \A z \in 1..(i - 1) : Len(pieces[z]) = 1 THEN i ELSE 0

\* the entries of the fields list that hold ALL, as [P, alone]: the names
\* before the first ALL, and whether the entry is the whole list
AllRequests ==
    {[P |-> [i \in 1..(AllAt(Split(fields[e], ".")) - 1) |->
                Split(fields[e], ".")[i][1]],
      alone |-> Len(fields) = 1] :
        e \in {x \in 1..Len(fields) : AllAt(Split(fields[x], ".")) > 0}}

FieldsCompiled == Ran("fields") /\ ~Contains(error, "Error in fields")

\* the names requested directly below the relation at path P by the fields
\* list: those written after P, and those an ALL written after P stands for
RequestedBelow(P) ==
    UNION {
      LET pieces == Split(fields[e], ".")
      IN  IF Len(pieces) > Len(P) /\ SubSeq(pieces, 1, Len(P)) = AsStrings(P)
          THEN IF pieces[Len(P) + 1] = <<"ALL">>
               THEN AllExpansion(P, drilldowns, hide_fields, {"ManyToManyField"})
               ELSE IF pieces[Len(P) + 1] = <<>> THEN {""}
               ELSE {pieces[Len(P) + 1][1]}
          ELSE {}
      : e \in 1..Len(fields)}

ManyToManyPaths(paths) ==
    {P \in paths :
        LET m == ModelAt(model, AsStrings(SubSeq(P, 1, Len(P) - 1)))
        IN  /\ m # NoModel
            /\ is_field_in(m, <<P[Len(P)]>>)
            /\ get_field_type(m, <<P[Len(P)]>>) = "ManyToManyField"}

-----------------------------------------------------------------------------
(* Properties *)

\* C1: a filter parameter that reaches across a relation path outside the
\* validated drilldowns ends the request with status 400, and no keyword
\* handed to the engine's filter reaches across such a path, whether the
\* path is written with '.' or after the first '__' of the key.
C1_FiltersStayInsideDrilldowns ==
    /\ (pc = "done" /\ \E i \in 1..Len(filters) :
                          \E h \in RelationHops(filters[i]) : ~InSeq(h, drilldowns))
          => status = 400
    /\ \A c \in FilterCalls : \A i \in 1..Len(calls[c].kw) :
          \A h \in RelationHops(calls[c].kw[i].k) : InSeq(h, drilldowns)

\* C2: whatever the fields parameter, no field whose dotted path is in the
\* hide list is a key of the compiled field tree or of an output record.
C2_HiddenFieldsNeverCompiledNorOutput ==
    /\ \A q \in fields_map : ~InSeq(Dot(q), hide_fields)
    /\ \A q \in data.keys : ~InSeq(Dot(q), hide_fields)

\* C3: no keyword handed to the engine's filter targets a field whose path
\* is in the hide list, however the parameter key is spelled.
C3_HiddenFieldsNeverFiltered ==
    \A c \in FilterCalls : \A i \in 1..Len(calls[c].kw) :
        LET r == Resolve(calls[c].kw[i].k)
        IN  ~(r.ok /\ InSeq(Dot(r.path), hide_fields))

DeclaredAreRelations ==
    \A i \in 1..Len(declared) : ModelAt(model, Split(declared[i], "__")) # NoModel

\* C5: when every segment of every declared path is a relation field, the
\* list _validate_drilldowns returns holds every declared path and every
\* non-empty strict prefix of each of its paths, each once.
C5_ValidatedDrilldownsArePrefixClosed ==
    (Ran("drilldowns") /\ DeclaredAreRelations) =>
        /\ \A i \in 1..Len(declared) : InSeq(declared[i], drilldowns)
        /\ \A i \in 1..Len(drilldowns) :
              LET parts == Split(drilldowns[i], "__")
              IN  \A k \in 1..(Len(parts) - 1) :
                     InSeq(JoinStrings(SubSeq(parts, 1, k), "__"), drilldowns)
        /\ \A i, j \in 1..Len(drilldowns) : i # j => drilldowns[i] # drilldowns[j]

\* C5 happens: a prefix that was not declared is in the validated list
C5_Witness ==
    /\ Ran("drilldowns")
    /\ DeclaredAreRelations
    /\ \E i \in 1..Len(drilldowns) : ~InSeq(drilldowns[i], declared)
    /\ Len(declared) = 2

\* the request asks for limit and offset that are absent or not negative
PageParamsNatural ==
    /\ AbsentOrNatural(Get(QUERY_PARAMS, <<"limit">>))
    /\ AbsentOrNatural(Get(QUERY_PARAMS, <<"offset">>))

\* C6: for every number of matching rows and every offset and limit, each
\* absent or a non-negative integer, a successful response carries
\* X-Total-Count equal to the number of rows matching the filters, whether
\* the count query is run or the length of the page is used.
C6_TotalCountIsMatchCount ==
    (pc = "done" /\ status = 200 /\ PageParamsNatural) =>
        /\ headers.has_total
        /\ headers.X_Total_Count = nmatch

\* C6 happens: a page cut short by the limit alone, so that the count query
\* is what gives the total
C6_Witness ==
    /\ pc = "done" /\ status = 200 /\ PageParamsNatural
    /\ offset = 0
    /\ data.n < nmatch
    /\ calls[Len(calls)].op = "count"
    /\ headers.X_Total_Count = nmatch

\* C7 as stated: a to-many relation requested with no sub-fields is output
\* as raw identifiers, and one requested with any sub-fields, the single
\* sub-field id included, as nested records.
C7_AnySubFieldNests ==
    (pc = "done" /\ status = 200) =>
        \A q \in ManyToManyPaths(fields_map) :
            (Len(q) = 1 \/ q \in data.keys) =>
                /\ q \in data.keys
                /\ q \in data.nested <=> RequestedBelow(q) # {}

\* C7 as amended: a ManyToMany relation requested with no sub-fields, or
\* with sub-fields that amount to id alone, is output as raw identifiers,
\* and one requested with any other sub-field as nested records.
C7_SubFieldsOtherThanIdNest ==
    (pc = "done" /\ status = 200) =>
        \A q \in ManyToManyPaths(fields_map) :
            (Len(q) = 1 \/ q \in data.keys) =>
                /\ q \in data.keys
                /\ q \in data.nested <=> ~(RequestedBelow(q) \subseteq {"id"})

\* C7 happens: items.id alone is answered with raw identifiers
C7_Witness ==
    /\ pc = "done" /\ status = 200
    /\ fields = << Dot(<<"items", "id">>) >>
    /\ <<"items">> \in data.keys
    /\ <<"items">> \notin data.nested

IsPrefix(s, t) == Len(s) <= Len(t) /\ SubSeq(t, 1, Len(s)) = s

\* the stage that records each validation error
StageOfError ==
    IF Contains(error, "Error in drilldowns") THEN "drilldowns"
    ELSE IF Contains(error, "Error in fields") THEN "fields"
    ELSE "filters"

\* C8: the stages run in the order base-query check, drilldown validation,
\* field-tree compilation, filter compilation, query execution; once a
\* stage records an error the request has ended with status 400, an empty
\* body and X-Query_Error set, no later stage has run and nothing was asked
\* of the query engine.
C8_FirstErrorEndsTheRequest ==
    /\ IsPrefix(stages, StageOrder)
    /\ (stages # <<>> /\ ~base_query) =>
          /\ pc = "done" /\ status = 400 /\ stages = <<"base_query">>
          /\ data = EmptyBody /\ headers.has_error /\ calls = <<>>
    /\ error # NoError =>
          /\ pc = "done" /\ status = 400
          /\ Last(stages) = StageOfError
          /\ data = EmptyBody
          /\ headers.has_error /\ headers.X_Query_Error = error
          /\ calls = <<>>
    /\ status = 400 =>
          /\ pc = "done" /\ data = EmptyBody /\ headers.has_error
          /\ ~headers.has_total
          /\ \A i \in 1..Len(calls) :
                calls[i].op \in {"none", "fetch"} => i = Len(calls)
          /\ \A i \in 1..Len(calls) : calls[i].op # "count"

\* C8 happens: the fields stage fails while filters wait to be compiled
C8_Witness ==
    /\ pc = "done" /\ status = 400
    /\ Contains(error, "Error in fields")
    /\ stages = <<"base_query", "drilldowns", "fields">>
    /\ filters # <<>>
    /\ calls = <<>>

\* the field name of a parameter key is in the configured ignore list
Ignored(key) == InSeq(Split(key, "__")[1], ignore)

RECURSIVE WithoutIgnored(_)
\* the request without the parameters whose field name is ignored
WithoutIgnored(params) ==
    IF params = <<>> THEN <<>>
    ELSE (IF Ignored(Head(params).k) THEN <<>> ELSE <<Head(params)>>)
            \o WithoutIgnored(Tail(params))

Answer(st, h, d, kw) == [status |-> st, headers |-> h, data |-> d, kw |-> kw]

\* what get() answers to the request params: status, headers, body and the
\* keywords handed to the engine's filter
Outcome(params) ==
    LET fl == get_filters(params, ignore_fields)
        vd == _validate_drilldowns(declared, NoError)
        fm == _create_fields_map(get_fields(params), vd.vd, hide_fields,
                                 <<>>, <<>>, NoError)
        fk == _set_filter_kwargs(fl, params, vd.vd, NoError)
        off == int_or_none_or_0(Get(params, <<"offset">>))
        lim == effective_limit(has_throttle, THROTTLE,
                               int_or_none_or_0(Get(params, <<"limit">>)))
        sl == page_slice(lim, off)
        len_data == page_len(sl, nmatch)
        shape == Serializer(fm.fm)
    IN  IF ~base_query
        THEN Answer(400, ErrorHeaders(Err("API error",
                        "get_base_query() missing or invalid", <<>>)), EmptyBody, <<>>)
        ELSE IF vd.err # NoError THEN Answer(400, ErrorHeaders(vd.err), EmptyBody, <<>>)
        ELSE IF fm.err # NoError THEN Answer(400, ErrorHeaders(fm.err), EmptyBody, <<>>)
        ELSE IF fk.err # NoError THEN Answer(400, ErrorHeaders(fk.err), EmptyBody, fk.kw)
        ELSE IF FilterFieldError(fk.kw)
        THEN Answer(400, ErrorHeaders(Err("", "Bad filter parameter in query.", <<>>)),
                    EmptyBody, fk.kw)
        ELSE IF FilterValueError(fk.kw)
        THEN Answer(400, ErrorHeaders(Err("", "Bad filter value in query", <<>>)),
                    EmptyBody, fk.kw)
        ELSE IF SliceFaults(sl, lim, off) THEN Answer(500, NoHeaders, EmptyBody, fk.kw)
        ELSE IF OrderFieldError(get_order_by(params))
        THEN Answer(400, ErrorHeaders(Err("Error", "May be bad field name in order_by",
                                          <<>>)), EmptyBody, fk.kw)
        ELSE Answer(200,
                    [NoHeaders EXCEPT !.has_total = TRUE,
                        !.X_Total_Count = total_count(off, lim, len_data, nmatch)],
                    [from |-> sl.lo, n |-> len_data, keys |-> shape.keys,
                     nested |-> shape.nested],
                    fk.kw)

\* C9: a request parameter whose field name, the part of the key before any
\* '__', is in the ignore list is dropped before filter compilation: the
\* request is answered as the same request without it, so it produces no
\* error and changes no row returned.
C9_IgnoredParametersChangeNothing ==
    /\ Ran("base_query") =>
          \A i \in 1..Len(QUERY_PARAMS) :
              Ignored(QUERY_PARAMS[i].k) => ~InSeq(QUERY_PARAMS[i].k, filters)
    /\ pc = "done" =>
          Answer(status, headers, data, filter_kwargs)
              = Outcome(WithoutIgnored(QUERY_PARAMS))

\* C9 happens: an ignored name that is no field, with an operator suffix,
\* beside a real filter, answered with status 200
C9_Witness ==
    /\ pc = "done" /\ status = 200
    /\ HasKey(QUERY_PARAMS, DUnder(<<"fakefield", "lt">>))
    /\ Len(QUERY_PARAMS) = 2
    /\ Len(filter_kwargs) = 1

\* the request asks for a limit that is absent, zero or positive
LimitParamNatural == AbsentOrNatural(Get(QUERY_PARAMS, <<"limit">>))

\* C10: for every requested limit, absent, zero or positive, and every
\* THROTTLE of the endpoint, the limit applied is at most GLOBAL_THROTTLE
\* and at most THROTTLE, and no response holds more than GLOBAL_THROTTLE
\* rows.
C10_NeverMoreThanGlobalThrottleRows ==
    (pc = "done" /\ status = 200 /\ LimitParamNatural) =>
        /\ limit <= GLOBAL_THROTTLE
        /\ has_throttle => limit <= THROTTLE
        /\ data.n <= GLOBAL_THROTTLE

\* the failure each declared path, each entry of the fields list and each
\* filter key gives when it is processed, NoError when it gives none
DrilldownFailures ==
    [i \in 1..Len(declared) |->
        validate_me([vd |-> <<>>, err |-> NoError], model, declared[i], <<>>).err]

FieldFailures ==
    [i \in 1..Len(fields) |->
        add_to_fields_map([fm |-> {}, sel |-> <<>>, pre |-> <<>>, err |-> NoError],
                          drilldowns, hide_fields, model, <<>>, fields[i], <<>>).err]

FilterFailures ==
    [i \in 1..Len(filters) |->
        do_filter(NoError, drilldowns, Split(filters[i], "__")[1], <<>>, model).err]

\* the failures of the stage that ended the request, in processing order
StageFailures ==
    IF Last(stages) = "drilldowns" THEN DrilldownFailures
    ELSE IF Last(stages) = "fields" THEN FieldFailures
    ELSE FilterFailures

Failing(errs) == {i \in 1..Len(errs) : errs[i] # NoError}

\* the first failure of a sequence of failures, NoError when there is none
FirstFailure(errs) ==
    IF Failing(errs) = {} THEN NoError
    ELSE errs[CHOOSE i \in Failing(errs) : \A j \in Failing(errs) : i <= j]

\* C11: when a validation stage ends the request, X-Query_Error of the 400
\* response describes the first failure of that stage in processing order,
\* also when the declared drilldowns, the fields list or the filter keys
\* hold more than one failure.
C11_HeaderDescribesFirstFailure ==
    (pc = "done" /\ error # NoError) =>
        /\ status = 400
        /\ headers.has_error
        /\ headers.X_Query_Error = FirstFailure(StageFailures)

\* the parameter is limit or offset with a text that is not the decimal text
\* of a non-negative integer
InvalidPageParam(e) ==
    /\ e.k \in {<<"limit">>, <<"offset">>}
    /\ ~(IsNumeral(e.v) /\ int_or_none_or_0(e.v) >= 0)

RECURSIVE WithoutInvalidPageParams(_)
\* the request without such parameters
WithoutInvalidPageParams(params) ==
    IF params = <<>> THEN <<>>
    ELSE (IF InvalidPageParam(Head(params)) THEN <<>> ELSE <<Head(params)>>)
            \o WithoutInvalidPageParams(Tail(params))

\* C12: a limit or offset whose text is not a non-negative integer, text
\* that is no number or a negative number, is treated as absent: the request
\* ends with status 200 or 400, never in a fault, and is answered as the
\* same request without the parameter.
C12_InvalidLimitAndOffsetAreAbsent ==
    pc = "done" =>
        /\ status \in {200, 400}
        /\ Answer(status, headers, data, filter_kwargs)
              = Outcome(WithoutInvalidPageParams(QUERY_PARAMS))

\* the relation segments of a requested dotted string that need a drilldown,
\* as their accumulated paths: each segment reached through relation fields
\* that is itself a relation field and either has trailing sub-segments or
\* is a ManyToMany field
NeedsDrilldown(dot_string) ==
    LET pieces == Split(dot_string, ".")
    IN  {JoinStrings(SubSeq(pieces, 1, k), "__") :
            k \in {j \in 1..Len(pieces) :
                     /\ ModelAt(model, SubSeq(pieces, 1, j)) # NoModel
                     /\ \/ j < Len(pieces)
                        \/ get_field_type(ModelAt(model, SubSeq(pieces, 1, j - 1)),
                                          pieces[j]) = "ManyToManyField"}}

TraversedPaths == {q \in fields_map : Keys(fields_map, q) # {}}

\* the field type of the last segment of the relation path q
TypeAt(q) ==
    get_field_type(ModelAt(model, AsStrings(SubSeq(q, 1, Len(q) - 1))),
                   <<q[Len(q)]>>)

\* a ForeignKey or OneToOne field leads to one row; a ManyToMany field and
\* the reverse side of a ForeignKey or ManyToMany field lead to many
ToOneTypes == {"ForeignKey", "OneToOneField"}
ToManyTypes == {"ManyToManyField", "RelatedObject"}

Occurrences(s, x) == Cardinality({i \in 1..Len(s) : s[i] = x})

\* C14: after the field tree is compiled, every traversed relation path is
\* recorded exactly once across select_relateds and prefetch_relateds, also
\* when several requested strings share it: in select_relateds if the
\* relation is to-one, in prefetch_relateds if it is to-many; and every
\* recorded path is a traversed one and is in the validated drilldowns.
C14_EachRelationRecordedOnce ==
    FieldsCompiled =>
        /\ \A q \in TraversedPaths :
              /\ Occurrences(select_relateds \o prefetch_relateds, DUnder(q)) = 1
              /\ TypeAt(q) \in ToOneTypes => InSeq(DUnder(q), select_relateds)
              /\ TypeAt(q) \in ToManyTypes => InSeq(DUnder(q), prefetch_relateds)
        /\ \A i \in 1..Len(select_relateds \o prefetch_relateds) :
              LET path == (select_relateds \o prefetch_relateds)[i]
              IN  /\ InSeq(path, drilldowns)
                  /\ \E q \in TraversedPaths : DUnder(q) = path

\* the offset and the limit the request asks for, 0 when it asks for none
RequestedOffset == int_or_none_or_0(Get(QUERY_PARAMS, <<"offset">>))
RequestedLimit == int_or_none_or_0(Get(QUERY_PARAMS, <<"limit">>))

\* the limit applied to a request: the requested one, GLOBAL_THROTTLE when
\* none is requested, and at most the THROTTLE of the endpoint, GLOBAL_THROTTLE
\* when it defines none
AppliedLimit ==
    Min(IF has_throttle THEN THROTTLE ELSE GLOBAL_THROTTLE,
        IF RequestedLimit # 0 THEN RequestedLimit ELSE GLOBAL_THROTTLE)

\* how many of n rows, numbered from 0, are in [lo, hi)
RowsBetween(lo, hi, n) == Max(0, Min(hi, n) - lo)

\* how many of n rows are at lo or after it
RowsFrom(lo, n) == Max(0, n - lo)

\* C15 as stated: with offset and limit both given the page is rows
\* [offset, offset+limit), limit being the limit applied; with only limit
\* given it is rows [0, limit); with only offset given it is every row from
\* offset to the end, for any number of matching rows.
C15_OffsetAloneReachesTheEnd ==
    (pc = "done" /\ status = 200 /\ PageParamsNatural) =>
        /\ (RequestedOffset # 0 /\ RequestedLimit # 0) =>
              /\ data.from = RequestedOffset
              /\ data.n = RowsBetween(RequestedOffset, RequestedOffset + limit, nmatch)
        /\ (RequestedOffset = 0 /\ RequestedLimit # 0) =>
              /\ data.from = 0
              /\ data.n = RowsBetween(0, limit, nmatch)
        /\ (RequestedOffset # 0 /\ RequestedLimit = 0) =>
              /\ data.from = RequestedOffset
              /\ data.n = RowsFrom(RequestedOffset, nmatch)

\* C15 as amended: the page starts at the offset, 0 when none is given, and
\* holds the rows [offset, offset+L), L the limit applied, which is not zero
\* when no limit is given; a request with only offset is cut at offset+L as
\* well.  Only when L is zero is the page every row from offset to the end.
C15_PageIsCutByAppliedLimit ==
    (pc = "done" /\ status = 200) =>
        /\ limit = AppliedLimit
        /\ data.from = RequestedOffset
        /\ AppliedLimit # 0 =>
              data.n = RowsBetween(RequestedOffset, RequestedOffset + AppliedLimit, nmatch)
        /\ AppliedLimit = 0 => data.n = RowsFrom(RequestedOffset, nmatch)

\* C15 happens: only offset is given and rows are left after the page
C15_Witness ==
    /\ pc = "done" /\ status = 200
    /\ ~HasKey(QUERY_PARAMS, <<"limit">>)
    /\ RequestedOffset = 1
    /\ ~has_throttle
    /\ nmatch = GLOBAL_THROTTLE + 2
    /\ data.from = 1
    /\ data.n = GLOBAL_THROTTLE

=============================================================================
